---- MODULE Spec2Model ----
(***************************************************************************)
(* AstroAlert monitoring engine: the risk fusion of main_astroalert_fixed, *)
(* the sqlite store of database.py and the sweep / manual check cycles of  *)
(* monitoring_service.py.                                                  *)
(*                                                                         *)
(* Number conventions.  Confidences are held in percent (0.8 is 80).       *)
(* A combined risk score is held in tenths of a point (32.5 is 325), so    *)
(* that (ai_risk + astrology_risk) / 2 stays an integer.  Timestamps are   *)
(* readings of the clock `now`.  Row ids (uuid4 in the code) are the       *)
(* position of the row in its table: tables are append-only.               *)
(***************************************************************************)
EXTENDS Integers, Sequences, FiniteSets, TLC

\* ---------------------------------------------------------------- bounds
MaxUsers == 1
MaxLocations == 2
MaxAnalyses == 1
MaxAlerts == 2
MaxTime == 1
MaxThreads == 2
MaxCallers == 1
MaxFuseCalls == 2
MaxNotifications == 2
MaxCycleAnalyses == 2
MaxDetectCalls == 3

\* ----------------------------------------------------- program constants
ScoreScale == 10
ScoreCap == 100
EnhancedScale == 100
WeightYolo == 35
WeightMeteorological == 40
WeightAstrology == 25
ExtremeFrom == 70
HighFrom == 50
ModerateFrom == 30
FallbackVrs == 25
ErrorVrs == 0

\* ------------------------------------------------------------ sentinels
NoSuchUser == 0
NoTime == -1
NoId == 0

Tiers == {"LOW", "MODERATE", "HIGH", "EXTREME"}
ThresholdInputs == {"LOW", "HIGH"}

SchedThreads == 1..MaxThreads
Callers == (MaxThreads + 1)..(MaxThreads + MaxCallers)
Procs == SchedThreads \cup Callers

Range(s) == {s[i] : i \in 1..Len(s)}

Min(a, b) == IF a <= b THEN a ELSE b

\* dict.get(key, default) on a record
Get(r, key, default) == IF key \in DOMAIN r THEN r[key] ELSE default

\* ------------------------------------------------- adapters (pure parts)
\* detect_cyclones: the subprocess raised / the labels directory is missing /
\* the label files hold the confidences `scores` (percent).
Mean(scores) ==
  LET RECURSIVE Sum(_)
      Sum(s) == IF s = <<>> THEN 0 ELSE Head(s) + Sum(Tail(s))
  IN Sum(scores) \div Len(scores)

detect_cyclones(raised, labels_exist, scores) ==
  IF raised
    THEN [error |-> TRUE, total_cyclones |-> 0]
    ELSE IF ~labels_exist
      THEN [total_cyclones |-> 0, confidence_scores |-> <<>>]
      ELSE [total_cyclones |-> Len(scores),
            confidence_scores |-> scores,
            avg_confidence |-> IF Len(scores) > 0 THEN Mean(scores) ELSE 0]

\* the tier table of calculate_vrs_score (inclusive lower bounds)
vrs_risk_level(vrs_score) ==
  IF vrs_score >= ExtremeFrom THEN "EXTREME"
  ELSE IF vrs_score >= HighFrom THEN "HIGH"
  ELSE IF vrs_score >= ModerateFrom THEN "MODERATE"
  ELSE "LOW"

\* calculate_vrs_score: the points of the ten factors that apply, capped at
\* 100, and the tier of the table.  planetary_data says which factors apply:
\* how many malefic planets stand in water signs and in water nakshatras, the
\* Sun-Moon and Mars-Saturn aspects, and so on.
calculate_vrs_score(planetary_data) ==
  LET aspect(kind, conjunction, opposition) ==
        IF kind = "conjunction" THEN conjunction
        ELSE IF kind = "opposition" THEN opposition ELSE 0
      points(applies, n) == IF applies THEN n ELSE 0
      vrs_score ==
        Min(100,
            15 * planetary_data.malefic_in_water_sign
              + aspect(planetary_data.sun_moon, 25, 20)
              + points(planetary_data.saturn_in_critical_house, 18)
              + points(planetary_data.axis_in_water_sign, 12)
              + aspect(planetary_data.mars_saturn, 25, 22)
              + 10 * planetary_data.malefic_in_water_nakshatra
              + 8 * planetary_data.luminary_in_water_nakshatra
              + points(planetary_data.critical_tithi, 10)
              + points(planetary_data.ascendant_in_water_sign, 12)
              + points(planetary_data.monsoon, 8)
              + points(planetary_data.tropical, 5))
  IN [vrs_score |-> vrs_score, risk_level |-> vrs_risk_level(vrs_score)]

\* get_cyclone_prediction: the computation either yields a score, and then
\* the result carries planetary_positions with a datetime object in it, or
\* it raises and the error fallback is returned.
get_cyclone_prediction(raised, score) ==
  IF raised
    THEN [vrs_analysis |-> [vrs_score |-> FallbackVrs, risk_level |-> "MODERATE"],
          system_status |-> "error",
          planetary_positions |-> FALSE]
    ELSE [vrs_analysis |-> [vrs_score |-> score, risk_level |-> vrs_risk_level(score)],
          system_status |-> "operational",
          planetary_positions |-> TRUE]

\* calculate_astrology_risk: get_cyclone_prediction catches every Exception
\* itself, so the except branch (vrs_score 0, UNKNOWN) is taken only when the
\* prediction call itself raises (`outer`).
calculate_astrology_risk(outer, raised, score) ==
  IF outer
    THEN [vrs_analysis |-> [vrs_score |-> ErrorVrs, risk_level |-> "UNKNOWN"],
          system_status |-> "error",
          planetary_positions |-> FALSE]
    ELSE get_cyclone_prediction(raised, score)

\* ------------------------------------------------------------ the fusion
\* ai risk points that drop again for the most confident detections
ai_risk_of_dip(detection_results) ==
  IF Get(detection_results, "total_cyclones", 0) > 0
    THEN LET avg_conf == Get(detection_results, "avg_confidence", 0)
         IN IF avg_conf > 80 THEN 10
            ELSE IF avg_conf > 50 THEN 20
            ELSE IF avg_conf > 20 THEN 10
            ELSE 0
    ELSE 0

ai_risk_of(detection_results) ==
  IF Get(detection_results, "total_cyclones", 0) > 0
    THEN LET avg_conf == Get(detection_results, "avg_confidence", 0)
         IN IF avg_conf > 80 THEN 30
            ELSE IF avg_conf > 50 THEN 20
            ELSE IF avg_conf > 20 THEN 10
            ELSE 0
    ELSE 0

\* min(100, (ai_risk + astrology_risk) / 2), in tenths
combined_risk_of_max(ai_risk, astrology_risk) ==
  Min(ScoreCap * ScoreScale,
      (IF ai_risk >= astrology_risk THEN ai_risk ELSE astrology_risk) * ScoreScale)

combined_risk_of(ai_risk, astrology_risk) ==
  Min(ScoreCap * ScoreScale, ((ai_risk + astrology_risk) * ScoreScale) \div 2)

\* the tier table read with exclusive lower bounds
final_risk_level_exclusive(combined_risk) ==
  IF combined_risk > ExtremeFrom * ScoreScale THEN "EXTREME"
  ELSE IF combined_risk > HighFrom * ScoreScale THEN "HIGH"
  ELSE IF combined_risk > ModerateFrom * ScoreScale THEN "MODERATE"
  ELSE "LOW"

final_risk_level_of(combined_risk) ==
  IF combined_risk >= ExtremeFrom * ScoreScale THEN "EXTREME"
  ELSE IF combined_risk >= HighFrom * ScoreScale THEN "HIGH"
  ELSE IF combined_risk >= ModerateFrom * ScoreScale THEN "MODERATE"
  ELSE "LOW"

confidence_of(detection_results) ==
  IF Get(detection_results, "total_cyclones", 0) > 0 THEN "High" ELSE "Medium"

generate_combined_risk_assessment(detection_results, astrology_results, clock) ==
  LET ai_risk == ai_risk_of(detection_results)
      astrology_risk == Get(Get(astrology_results, "vrs_analysis", <<>>), "vrs_score", 0)
      combined_risk == combined_risk_of(ai_risk, astrology_risk)
      final_risk_level == final_risk_level_of(combined_risk)
  IN [timestamp |-> clock,
      ai_detection |->
        [cyclones_detected |-> Get(detection_results, "total_cyclones", 0),
         average_confidence |-> Get(detection_results, "avg_confidence", 0),
         ai_risk_score |-> ai_risk],
      astrology_analysis |->
        [vrs_score |-> astrology_risk,
         risk_level |-> Get(Get(astrology_results, "vrs_analysis", <<>>), "risk_level", "UNKNOWN")],
      combined_assessment |->
        [combined_risk_score |-> combined_risk,
         final_risk_level |-> final_risk_level,
         confidence |-> confidence_of(detection_results)],
      recommendations |-> final_risk_level]

\* run_complete_analysis: the final report
run_complete_analysis(detection_results, astrology_results, clock) ==
  [analysis_timestamp |-> clock,
   results |-> [detection |-> detection_results,
                astrology |-> astrology_results,
                combined |-> generate_combined_risk_assessment(
                               detection_results, astrology_results, clock)]]

\* ------------------------------------------------- the enhanced fusion
\* scores of the enhanced fusion are held in hundredths of a point, so that
\* ai * 0.35 + met * 0.40 + astro * 0.25 stays an integer
quality_scores ==
  [EXCELLENT |-> 50, GOOD |-> 40, MODERATE |-> 30, FAIR |-> 22,
   WEAK_MULTIPLE |-> 15, WEAK_MANY |-> 10, POOR |-> 5]

calculate_base_ai_risk(detection_results) ==
  IF Get(detection_results, "total_cyclones", 0) = 0
    THEN 0
    ELSE Get(quality_scores,
             Get(detection_results, "detection_quality", "NO_DETECTION"), 0)

\* `if enhanced_meteorological and 'error' not in enhanced_meteorological`:
\* None (the analyzer is not available) is the empty record here
NoMeteorological == <<>>

meteorological_available(enhanced_meteorological) ==
  /\ enhanced_meteorological # NoMeteorological
  /\ "error" \notin DOMAIN enhanced_meteorological

structural_risk_of(overall_risk_level) ==
  CASE overall_risk_level = "High" -> 20
    [] overall_risk_level = "Moderate" -> 15
    [] overall_risk_level = "Low to Moderate" -> 10
    [] overall_risk_level = "Low" -> 5
    [] OTHER -> 0

\* _analyze_meteorological_risk: risk_score
analyze_meteorological_risk(enhanced_meteorological) ==
  LET max_intensity == Get(enhanced_meteorological, "max_intensity", 0)
      intensity_risk == IF max_intensity >= 5 THEN 45
                        ELSE IF max_intensity >= 4 THEN 35
                        ELSE IF max_intensity >= 3 THEN 25
                        ELSE IF max_intensity >= 2 THEN 15
                        ELSE IF max_intensity >= 1 THEN 5
                        ELSE 0
      eye_risk == IF Get(enhanced_meteorological, "total_eyes_detected", 0) > 0
                    THEN 15 ELSE 0
      structural_risk ==
        structural_risk_of(Get(enhanced_meteorological, "overall_risk_level", "Low"))
  IN Min(ScoreCap, intensity_risk + eye_risk + structural_risk)

determine_enhanced_risk_level(combined_risk) ==
  IF combined_risk >= 75 * EnhancedScale THEN "EXTREME"
  ELSE IF combined_risk >= 60 * EnhancedScale THEN "VERY_HIGH"
  ELSE IF combined_risk >= 45 * EnhancedScale THEN "HIGH"
  ELSE IF combined_risk >= 30 * EnhancedScale THEN "MODERATE"
  ELSE IF combined_risk >= 15 * EnhancedScale THEN "LOW_TO_MODERATE"
  ELSE "LOW"

generate_enhanced_combined_assessment(detection_results, enhanced_meteorological, astrology_results, clock) ==
  LET ai_risk == calculate_base_ai_risk(detection_results)
      available == meteorological_available(enhanced_meteorological)
      meteorological_risk ==
        IF available THEN analyze_meteorological_risk(enhanced_meteorological) ELSE 0
      astrology_risk == Get(Get(astrology_results, "vrs_analysis", <<>>), "vrs_score", 0)
      combined_risk ==
        IF available
          THEN Min(ScoreCap * EnhancedScale,
                   ai_risk * WeightYolo + meteorological_risk * WeightMeteorological
                     + astrology_risk * WeightAstrology)
          ELSE Min(ScoreCap * EnhancedScale,
                   ((ai_risk + astrology_risk) * EnhancedScale) \div 2)
  IN [timestamp |-> clock,
      analysis_components |->
        [yolo_detection |->
           [cyclones_detected |-> Get(detection_results, "total_cyclones", 0),
            average_confidence |-> Get(detection_results, "avg_confidence", 0),
            detection_quality |-> Get(detection_results, "detection_quality", "Unknown"),
            ai_risk_score |-> ai_risk],
         meteorological_risk_score |-> meteorological_risk,
         astrology_analysis |->
           [vrs_score |-> astrology_risk,
            risk_level |-> Get(Get(astrology_results, "vrs_analysis", <<>>),
                               "risk_level", "UNKNOWN")]],
      enhanced_combined_assessment |->
        [combined_risk_score |-> combined_risk,
         final_risk_level |-> determine_enhanced_risk_level(combined_risk),
         confidence |-> IF available THEN "High" ELSE "Medium"]]

\* json.dumps(analysis_results) in save_analysis has no default= hook: a
\* report that carries the datetime of planetary_positions raises TypeError.
json_dumps_ok(analysis_results) ==
  ~analysis_results.results.astrology.planetary_positions

\* ------------------------------------------------- the alert rule (pure)
risk_levels == [LOW |-> 1, MODERATE |-> 2, HIGH |-> 3, EXTREME |-> 4]

\* a rule that ranks an unrecognized assessed tier above EXTREME
meets_threshold_unknown_high(current_risk, alert_threshold) ==
  Get(risk_levels, current_risk, 5) >= Get(risk_levels, alert_threshold, 2)

\* current_level >= threshold_level of evaluate_alerts
meets_threshold(current_risk, alert_threshold) ==
  Get(risk_levels, current_risk, 0) >= Get(risk_levels, alert_threshold, 2)

\* ------------------------------------------------------------------ state
VARIABLES
  users,              \* users table: the ids of the (active) users
  phones,             \* ids of the users whose phone column is not NULL
  locations,          \* locations table, row id = index
  analyses,           \* analyses table, row id = index
  alerts,             \* alerts table, row id = index
  notifications,      \* notifications table, in insertion order
  now,                \* datetime.datetime.now()
  monitoring_active,  \* MonitoringService.monitoring_active
  jobs,               \* jobs registered with the schedule module
  pc,                 \* where each thread is
  mode,               \* what a thread is running: sweep, manual check, direct call
  location,           \* the `location` dict a thread works on
  queue,              \* rest of `for location in locations` of a sweep
  results,            \* the report of run_complete_analysis held by a thread
  analysis_id,        \* id of the row save_analysis inserted in this cycle
  alert_id,           \* id of the row create_alert inserted in this cycle
  sweep_list,         \* ids get_active_locations returned to the sweep
  attempted,          \* ids check_location was called for in the sweep
  failed,             \* ids whose check cycle failed in the sweep
  outcome,            \* how the last check cycle of a thread ended
  reply,              \* what manual_check_location returned last
  fuse_calls,         \* log of generate_combined_risk_assessment calls
  response,           \* what the last observed call of a store method or route returned
  labels_dir,         \* the label files under runs/detect/astroalert_detection/labels
  adapter_calls       \* log of detect_cyclones and get_cyclone_prediction calls

storeVars == <<users, phones, locations, analyses, alerts, notifications>>
probeVars == <<response, labels_dir, adapter_calls>>
schedVars == <<monitoring_active, jobs>>
cycleVars == <<pc, mode, location, queue, results, analysis_id, alert_id,
               sweep_list, attempted, failed, outcome, reply>>
vars == <<users, phones, locations, analyses, alerts, notifications, now,
          monitoring_active, jobs, pc, mode, location, queue, results, analysis_id,
          alert_id, sweep_list, attempted, failed, outcome, reply, fuse_calls,
          response, labels_dir, adapter_calls>>

NoLocation == [id |-> NoId]
NoResults == [analysis_timestamp |-> NoTime]

\* nothing was returned yet; the labels directory does not exist
NoResponse == [call |-> "none"]
NoDirectory == [exists |-> FALSE, lines |-> <<>>]

Init ==
  /\ users = {}
  /\ phones = {}
  /\ locations = <<>>
  /\ analyses = <<>>
  /\ alerts = <<>>
  /\ notifications = <<>>
  /\ now = 0
  /\ monitoring_active = FALSE
  /\ jobs = 0
  /\ pc = [p \in Procs |-> IF p \in SchedThreads THEN "off" ELSE "idle"]
  /\ mode = [p \in Procs |-> "none"]
  /\ location = [p \in Procs |-> NoLocation]
  /\ queue = [p \in Procs |-> <<>>]
  /\ results = [p \in Procs |-> NoResults]
  /\ analysis_id = [p \in Procs |-> NoId]
  /\ alert_id = [p \in Procs |-> NoId]
  /\ sweep_list = [p \in Procs |-> <<>>]
  /\ attempted = [p \in Procs |-> {}]
  /\ failed = [p \in Procs |-> {}]
  /\ outcome = [p \in Procs |-> "none"]
  /\ reply = [p \in Procs |-> "none"]
  /\ fuse_calls = <<>>
  /\ response = NoResponse
  /\ labels_dir = NoDirectory
  /\ adapter_calls = <<>>

\* ------------------------------------------------------------- the store
\* db.create_user(email, name, phone=None): email is NOT NULL, phone may be
create_user(phone) ==
  /\ Cardinality(users) < MaxUsers
  /\ users' = users \cup {Cardinality(users) + 1}
  /\ phones' = IF phone THEN phones \cup {Cardinality(users) + 1} ELSE phones
  /\ UNCHANGED <<locations, analyses, alerts, notifications, now, schedVars, cycleVars,
                 fuse_calls, probeVars>>

\* db.get_user: the row, or None
get_user(user_id) == IF user_id \in users THEN user_id ELSE NoSuchUser

\* db.add_location: a plain INSERT, user_id is not looked up
add_location(user_id, latitude, longitude, alert_threshold) ==
  /\ Len(locations) < MaxLocations
  /\ locations' = Append(locations,
       [user_id |-> user_id, latitude |-> latitude, longitude |-> longitude,
        monitoring_enabled |-> TRUE,
        alert_threshold |-> alert_threshold, last_analysis |-> NoTime])
  /\ UNCHANGED <<users, phones, analyses, alerts, notifications, now, schedVars, cycleVars, fuse_calls, probeVars>>

\* db.update_location(location_id, **kwargs): UPDATE ... WHERE id = ?
update_location_rows(location_id, kwargs) ==
  [i \in DOMAIN locations |->
     IF i = location_id
       THEN [k \in DOMAIN locations[i] |->
               IF k \in DOMAIN kwargs THEN kwargs[k] ELSE locations[i][k]]
       ELSE locations[i]]

\* the columns of the locations table that a row of the model carries
LocationColumns ==
  {"user_id", "latitude", "longitude", "monitoring_enabled", "alert_threshold",
   "last_analysis"}

\* an UPDATE without its WHERE clause
update_location_everywhere(location_id, kwargs) ==
  /\ IF DOMAIN kwargs = {}
       THEN /\ UNCHANGED locations
            /\ response' = [call |-> "update_location", id |-> location_id,
                             kwargs |-> kwargs, returned |-> FALSE]
       ELSE /\ locations' = [i \in DOMAIN locations |->
                               update_location_rows(i, kwargs)[i]]
            /\ response' = [call |-> "update_location", id |-> location_id,
                             kwargs |-> kwargs, returned |-> (locations # <<>>)]
  /\ UNCHANGED <<users, phones, analyses, alerts, notifications, now, schedVars, cycleVars,
                 fuse_calls, labels_dir, adapter_calls>>

\* db.update_location called by a client that looks at what it returns:
\* False without kwargs, otherwise cursor.rowcount > 0; a key that is not a
\* column makes cursor.execute raise sqlite3.OperationalError
update_location(location_id, kwargs) ==
  /\ IF DOMAIN kwargs = {}
       THEN /\ UNCHANGED locations
            /\ response' = [call |-> "update_location", id |-> location_id,
                             kwargs |-> kwargs, returned |-> FALSE]
       ELSE IF ~(DOMAIN kwargs \subseteq LocationColumns)
         THEN /\ UNCHANGED locations
              /\ response' = [call |-> "update_location", id |-> location_id,
                               kwargs |-> kwargs, raised |-> "OperationalError"]
         ELSE /\ locations' = update_location_rows(location_id, kwargs)
              /\ response' = [call |-> "update_location", id |-> location_id,
                               kwargs |-> kwargs,
                               returned |-> (location_id \in DOMAIN locations)]
  /\ UNCHANGED <<users, phones, analyses, alerts, notifications, now, schedVars, cycleVars,
                 fuse_calls, labels_dir, adapter_calls>>

\* POST /api/locations: the coordinates are validated, then db.add_location;
\* a request with invalid coordinates is answered 400 and stores nothing
app_add_location(user_id, latitude, longitude, alert_threshold) ==
  IF (-90 <= latitude /\ latitude <= 90) /\ (-180 <= longitude /\ longitude <= 180)
    THEN add_location(user_id, latitude, longitude, alert_threshold)
    ELSE UNCHANGED vars

\* PUT /api/locations/<location_id>: db.update_location(location_id, **data)
\* with the request's fields as they came; an empty body is answered 400 and
\* a raised sqlite3 error 500 (the HTTP answer itself is not kept)
app_update_location(location_id, data) ==
  IF DOMAIN data = {} \/ ~(DOMAIN data \subseteq LocationColumns)
    THEN UNCHANGED vars
    ELSE /\ locations' = update_location_rows(location_id, data)
         /\ UNCHANGED <<users, phones, analyses, alerts, notifications, now, schedVars,
                        cycleVars, fuse_calls, probeVars>>

\* db.get_active_locations: WHERE monitoring_enabled = 1 ORDER BY created_at DESC
\* (of a row the check cycle reads id, user_id and alert_threshold)
LocationDict(i) ==
  [id |-> i, user_id |-> locations[i].user_id,
   alert_threshold |-> locations[i].alert_threshold]

\* a listing that forgets WHERE monitoring_enabled = 1
get_all_locations ==
  LET n == Len(locations)
  IN [i \in 1..n |-> LocationDict(n + 1 - i)]

get_active_locations ==
  LET n == Len(locations)
      desc == [i \in 1..n |-> n + 1 - i]
      RECURSIVE Pick(_)
      Pick(i) == IF i > n THEN <<>>
                 ELSE IF locations[desc[i]].monitoring_enabled
                        THEN <<LocationDict(desc[i])>> \o Pick(i + 1)
                        ELSE Pick(i + 1)
  IN Pick(1)

Tick ==
  /\ now < MaxTime
  /\ now' = now + 1
  /\ UNCHANGED <<storeVars, schedVars, cycleVars, fuse_calls, probeVars>>

\* ---------------------------------------------------------- the scheduler
\* start_monitoring without the test of monitoring_active: every call
\* registers a job and starts a thread if one is free
start_monitoring_unguarded ==
  /\ pc' = IF \E t \in SchedThreads : pc[t] = "off"
             THEN [pc EXCEPT ![CHOOSE t \in SchedThreads :
                                 /\ pc[t] = "off"
                                 /\ \A u \in SchedThreads : pc[u] = "off" => t <= u] = "poll"]
             ELSE pc
  /\ mode' = [p \in Procs |-> IF p \in SchedThreads THEN "sweep" ELSE mode[p]]
  /\ monitoring_active' = TRUE
  /\ jobs' = jobs + 1
  /\ UNCHANGED <<storeVars, now, location, queue, results, analysis_id,
                 alert_id, sweep_list, attempted, failed, outcome, reply, fuse_calls, probeVars>>

\* start_monitoring: a second start is a no-op; otherwise one job is
\* registered and a new thread (the first free one) runs _run_scheduler
start_monitoring ==
  IF monitoring_active
    THEN UNCHANGED vars
    ELSE /\ \E t \in SchedThreads :
              /\ pc[t] = "off"
              /\ \A u \in SchedThreads : pc[u] = "off" => t <= u
              /\ pc' = [pc EXCEPT ![t] = "poll"]
              /\ mode' = [mode EXCEPT ![t] = "sweep"]
         /\ monitoring_active' = TRUE
         /\ jobs' = jobs + 1
         /\ UNCHANGED <<storeVars, now, location, queue, results, analysis_id,
                        alert_id, sweep_list, attempted, failed, outcome, reply, fuse_calls, probeVars>>

\* stop_monitoring: clears the flag and schedule.clear()
stop_monitoring ==
  /\ monitoring_active' = FALSE
  /\ jobs' = 0
  /\ UNCHANGED <<storeVars, now, cycleVars, fuse_calls, probeVars>>

\* _run_scheduler: `while self.monitoring_active` found false, the thread ends
run_scheduler_exit(t) ==
  /\ pc[t] = "poll"
  /\ ~monitoring_active
  /\ pc' = [pc EXCEPT ![t] = "off"]
  /\ UNCHANGED <<storeVars, now, schedVars, mode, location, queue, results,
                 analysis_id, alert_id, sweep_list, attempted, failed, outcome, reply,
                 fuse_calls, probeVars>>

\* _run_scheduler: `while self.monitoring_active` found true and
\* schedule.run_pending() has taken the registered job as due; the job is
\* called in a later step of the thread
run_pending(t) ==
  /\ pc[t] = "poll"
  /\ monitoring_active
  /\ jobs > 0
  /\ pc' = [pc EXCEPT ![t] = "due"]
  /\ UNCHANGED <<storeVars, now, schedVars, mode, location, queue, results,
                 analysis_id, alert_id, sweep_list, attempted, failed, outcome, reply,
                 fuse_calls, probeVars>>

\* the due job runs: check_all_locations, up to the for loop; the list of
\* active locations is read once
check_all_locations(t) ==
  /\ pc[t] = "due"
  /\ LET locs == get_active_locations
     IN /\ queue' = [queue EXCEPT ![t] = locs]
        /\ sweep_list' = [sweep_list EXCEPT ![t] = [i \in DOMAIN locs |-> locs[i].id]]
        /\ attempted' = [attempted EXCEPT ![t] = {}]
        /\ failed' = [failed EXCEPT ![t] = {}]
        /\ pc' = [pc EXCEPT ![t] = IF locs = <<>> THEN "poll" ELSE "loop"]
  /\ UNCHANGED <<storeVars, now, schedVars, mode, location, results,
                 analysis_id, alert_id, outcome, reply, fuse_calls, probeVars>>

\* a sweep without the try/except around check_location: the first cycle
\* that fails ends the sweep
sweep_loop_abort(t) ==
  /\ pc[t] = "loop"
  /\ IF queue[t] = <<>> \/ failed[t] # {}
       THEN /\ pc' = [pc EXCEPT ![t] = "poll"]
            /\ queue' = [queue EXCEPT ![t] = <<>>]
            /\ attempted' = [attempted EXCEPT ![t] = {}]
            /\ failed' = [failed EXCEPT ![t] = {}]
            /\ sweep_list' = [sweep_list EXCEPT ![t] = <<>>]
            /\ outcome' = [outcome EXCEPT ![t] = "none"]
            /\ alert_id' = [alert_id EXCEPT ![t] = NoId]
            /\ UNCHANGED <<location, results, analysis_id>>
       ELSE /\ pc' = [pc EXCEPT ![t] = "check"]
            /\ location' = [location EXCEPT ![t] = Head(queue[t])]
            /\ queue' = [queue EXCEPT ![t] = Tail(queue[t])]
            /\ attempted' = [attempted EXCEPT ![t] = @ \cup {Head(queue[t]).id}]
            /\ results' = [results EXCEPT ![t] = NoResults]
            /\ analysis_id' = [analysis_id EXCEPT ![t] = NoId]
            /\ alert_id' = [alert_id EXCEPT ![t] = NoId]
            /\ outcome' = [outcome EXCEPT ![t] = "none"]
            /\ UNCHANGED <<sweep_list, failed>>
  /\ UNCHANGED <<storeVars, now, schedVars, mode, reply, fuse_calls, probeVars>>

\* `for location in locations: try: self.check_location(location)`: the
\* next location is taken whatever the previous cycle did; after the last
\* one the sweep is complete and the thread polls again
sweep_loop(t) ==
  /\ pc[t] = "loop"
  /\ IF queue[t] = <<>>
       THEN /\ pc' = [pc EXCEPT ![t] = "poll"]
            /\ attempted' = [attempted EXCEPT ![t] = {}]
            /\ failed' = [failed EXCEPT ![t] = {}]
            /\ sweep_list' = [sweep_list EXCEPT ![t] = <<>>]
            /\ outcome' = [outcome EXCEPT ![t] = "none"]
            /\ alert_id' = [alert_id EXCEPT ![t] = NoId]
            /\ UNCHANGED <<location, queue, results, analysis_id>>
       ELSE /\ pc' = [pc EXCEPT ![t] = "check"]
            /\ location' = [location EXCEPT ![t] = Head(queue[t])]
            /\ queue' = [queue EXCEPT ![t] = Tail(queue[t])]
            /\ attempted' = [attempted EXCEPT ![t] = @ \cup {Head(queue[t]).id}]
            /\ results' = [results EXCEPT ![t] = NoResults]
            /\ analysis_id' = [analysis_id EXCEPT ![t] = NoId]
            /\ alert_id' = [alert_id EXCEPT ![t] = NoId]
            /\ outcome' = [outcome EXCEPT ![t] = "none"]
            /\ UNCHANGED <<sweep_list, failed>>
  /\ UNCHANGED <<storeVars, now, schedVars, mode, reply, fuse_calls, probeVars>>

\* ------------------------------------------------------- the manual check
\* manual_check_location up to the call of check_location
manual_check_location(c, location_id) ==
  /\ pc[c] = "idle"
  /\ LET found == SelectSeq(get_active_locations, LAMBDA loc : loc.id = location_id)
     IN IF found = <<>>
          THEN /\ reply' = [reply EXCEPT ![c] = "Location not found or not active"]
               /\ mode' = [mode EXCEPT ![c] = "manual"]
               /\ outcome' = [outcome EXCEPT ![c] = "none"]
               /\ UNCHANGED <<pc, location, results, analysis_id, alert_id>>
          ELSE /\ pc' = [pc EXCEPT ![c] = "check"]
               /\ mode' = [mode EXCEPT ![c] = "manual"]
               /\ location' = [location EXCEPT ![c] = found[1]]
               /\ results' = [results EXCEPT ![c] = NoResults]
               /\ analysis_id' = [analysis_id EXCEPT ![c] = NoId]
               /\ alert_id' = [alert_id EXCEPT ![c] = NoId]
               /\ outcome' = [outcome EXCEPT ![c] = "none"]
               /\ reply' = [reply EXCEPT ![c] = "none"]
  /\ UNCHANGED <<storeVars, now, schedVars, queue, sweep_list, attempted, failed, fuse_calls, probeVars>>

\* a caller runs evaluate_alerts again on a stored Analysis, with the report
\* it was saved from and the location's current row
evaluate_alerts_call(c, a) ==
  /\ pc[c] = "idle"
  /\ a \in DOMAIN analyses
  /\ pc' = [pc EXCEPT ![c] = "evaluate"]
  /\ mode' = [mode EXCEPT ![c] = "direct"]
  /\ location' = [location EXCEPT ![c] = LocationDict(analyses[a].location_id)]
  /\ results' = [results EXCEPT ![c] = analyses[a].full_results]
  /\ analysis_id' = [analysis_id EXCEPT ![c] = a]
  /\ alert_id' = [alert_id EXCEPT ![c] = NoId]
  /\ outcome' = [outcome EXCEPT ![c] = "none"]
  /\ reply' = [reply EXCEPT ![c] = "none"]
  /\ UNCHANGED <<storeVars, now, schedVars, queue, sweep_list, attempted, failed, fuse_calls, probeVars>>

\* a caller runs evaluate_alerts on a stored Analysis with a report whose
\* final_risk_level is the given label, and the location's current row
evaluate_alerts_with(c, a, label) ==
  /\ pc[c] = "idle"
  /\ a \in DOMAIN analyses
  /\ pc' = [pc EXCEPT ![c] = "evaluate"]
  /\ mode' = [mode EXCEPT ![c] = "direct"]
  /\ location' = [location EXCEPT ![c] = LocationDict(analyses[a].location_id)]
  /\ results' = [results EXCEPT ![c] =
       [analyses[a].full_results EXCEPT
          !.results.combined.combined_assessment.final_risk_level = label]]
  /\ analysis_id' = [analysis_id EXCEPT ![c] = a]
  /\ alert_id' = [alert_id EXCEPT ![c] = NoId]
  /\ outcome' = [outcome EXCEPT ![c] = "none"]
  /\ reply' = [reply EXCEPT ![c] = "none"]
  /\ UNCHANGED <<storeVars, now, schedVars, queue, sweep_list, attempted, failed,
                 fuse_calls, probeVars>>

\* -------------------------------------------------------- the check cycle
\* inputs of one analysis that the model explores
\* (both adapters fail: 12.5 LOW; 35 MODERATE; 65 HIGH)
AnalysisInputs ==
  {<<detect_cyclones(TRUE, FALSE, <<>>), calculate_astrology_risk(FALSE, TRUE, 0)>>,
   <<detect_cyclones(FALSE, TRUE, <<90, 90>>), calculate_astrology_risk(FALSE, FALSE, 40)>>,
   <<detect_cyclones(FALSE, TRUE, <<90, 90>>), calculate_astrology_risk(FALSE, FALSE, 100)>>}

Failures == {"analysis_error", "json_error", "db_error_insert", "db_error_mark",
             "db_error_user", "db_error_alert"}

\* How a check cycle ends.  check_location catches every Exception and
\* prints it, so its callers see a normal return: the sweep goes on with
\* the next location and manual_check_location answers success.  A direct
\* call of evaluate_alerts has no such handler.
EndCycle(p, how) ==
  /\ outcome' = [outcome EXCEPT ![p] = how]
  /\ pc' = [pc EXCEPT ![p] = IF mode[p] = "sweep" THEN "loop" ELSE "idle"]
  /\ reply' = [reply EXCEPT ![p] =
                 IF mode[p] = "manual" THEN "success"
                 ELSE IF mode[p] = "direct"
                   THEN (IF how \in Failures THEN "raised" ELSE "returned")
                   ELSE @]
  /\ mode' = [mode EXCEPT ![p] = IF p \in SchedThreads THEN @ ELSE "none"]
  /\ location' = [location EXCEPT ![p] = NoLocation]
  /\ results' = [results EXCEPT ![p] = NoResults]
  /\ analysis_id' = [analysis_id EXCEPT ![p] = NoId]
  /\ failed' = [failed EXCEPT ![p] =
                  IF mode[p] = "sweep" /\ how \in Failures
                    THEN @ \cup {location[p].id} ELSE @]

\* check_location: os.path.exists(default_image) is false, plain return
check_location_no_image(p) ==
  /\ pc[p] = "check"
  /\ EndCycle(p, "no_image")
  /\ UNCHANGED <<storeVars, now, schedVars, queue, alert_id, sweep_list,
                 attempted, fuse_calls, probeVars>>

\* check_location: run_complete_analysis returns its report
check_location_analyze(p, detection_results, astrology_results) ==
  /\ pc[p] = "check"
  /\ results' = [results EXCEPT ![p] =
       run_complete_analysis(detection_results, astrology_results, now)]
  /\ pc' = [pc EXCEPT ![p] = "save"]
  /\ UNCHANGED <<storeVars, now, schedVars, mode, location, queue, analysis_id,
                 alert_id, sweep_list, attempted, failed, outcome, reply, fuse_calls, probeVars>>

\* check_location: run_complete_analysis raises (_save_results cannot write)
check_location_analyze_raises(p) ==
  /\ pc[p] = "check"
  /\ EndCycle(p, "analysis_error")
  /\ UNCHANGED <<storeVars, now, schedVars, queue, alert_id, sweep_list,
                 attempted, fuse_calls, probeVars>>

\* the columns save_analysis extracts from the report
analysis_row(location_id, analysis_results) ==
  LET detection == Get(Get(analysis_results, "results", <<>>), "detection", <<>>)
      astrology == Get(Get(Get(analysis_results, "results", <<>>),
                           "astrology", <<>>), "vrs_analysis", <<>>)
      combined == Get(Get(Get(analysis_results, "results", <<>>),
                          "combined", <<>>), "combined_assessment", <<>>)
  IN [location_id |-> location_id,
      analysis_timestamp |-> Get(analysis_results, "analysis_timestamp", NoTime),
      ai_cyclones_detected |-> Get(detection, "total_cyclones", 0),
      ai_avg_confidence |-> Get(detection, "avg_confidence", 0),
      ai_risk_score |-> Get(combined, "ai_risk_score", 0),
      vrs_score |-> Get(astrology, "vrs_score", 0),
      vrs_risk_level |-> Get(astrology, "risk_level", "LOW"),
      combined_risk_score |-> Get(combined, "combined_risk_score", 0),
      final_risk_level |-> Get(combined, "final_risk_level", "LOW"),
      full_results |-> analysis_results]

\* save_analysis, the INSERT INTO analyses and its commit; json.dumps is
\* evaluated first and its TypeError leaves the table alone
save_analysis_insert(p) ==
  /\ pc[p] = "save"
  /\ IF json_dumps_ok(results[p])
       THEN /\ analyses' = Append(analyses, analysis_row(location[p].id, results[p]))
            /\ analysis_id' = [analysis_id EXCEPT ![p] = Len(analyses) + 1]
            /\ pc' = [pc EXCEPT ![p] = "mark"]
            /\ UNCHANGED <<outcome, reply, mode, location, results, failed>>
       ELSE /\ EndCycle(p, "json_error")
            /\ UNCHANGED analyses
  /\ UNCHANGED <<users, phones, locations, alerts, notifications, now, schedVars, queue, alert_id,
                 sweep_list, attempted, fuse_calls, probeVars>>

\* save_analysis: the INSERT raises sqlite3.Error
save_analysis_insert_fails(p) ==
  /\ pc[p] = "save"
  /\ json_dumps_ok(results[p])
  /\ EndCycle(p, "db_error_insert")
  /\ UNCHANGED <<storeVars, now, schedVars, queue, alert_id, sweep_list,
                 attempted, fuse_calls, probeVars>>

\* save_analysis: self.update_location(location_id, last_analysis=...), a
\* second transaction after the INSERT was committed
save_analysis_mark(p) ==
  /\ pc[p] = "mark"
  /\ locations' = update_location_rows(location[p].id,
       [last_analysis |-> Get(results[p], "analysis_timestamp", NoTime)])
  /\ pc' = [pc EXCEPT ![p] = "evaluate"]
  /\ UNCHANGED <<users, phones, analyses, alerts, notifications, now, schedVars, mode, location, queue,
                 results, analysis_id, alert_id, sweep_list, attempted, failed, outcome,
                 reply, fuse_calls, probeVars>>

\* save_analysis: the UPDATE raises sqlite3.Error
save_analysis_mark_fails(p) ==
  /\ pc[p] = "mark"
  /\ EndCycle(p, "db_error_mark")
  /\ UNCHANGED <<storeVars, now, schedVars, queue, alert_id, sweep_list,
                 attempted, fuse_calls, probeVars>>

current_risk_of(analysis_results) ==
  analysis_results.results.combined.combined_assessment.final_risk_level

\* evaluate_alerts, and trigger_alert up to db.get_user
evaluate_alerts(p) ==
  /\ pc[p] = "evaluate"
  /\ IF /\ meets_threshold(current_risk_of(results[p]), location[p].alert_threshold)
        /\ get_user(location[p].user_id) # NoSuchUser
       THEN /\ pc' = [pc EXCEPT ![p] = "create"]
            /\ UNCHANGED <<outcome, reply, mode, location, results, analysis_id,
                           failed>>
       ELSE EndCycle(p, "completed")
  /\ UNCHANGED <<storeVars, now, schedVars, queue, alert_id, sweep_list,
                 attempted, fuse_calls, probeVars>>

\* trigger_alert: db.get_user raises sqlite3.Error
evaluate_alerts_fails(p) ==
  /\ pc[p] = "evaluate"
  /\ meets_threshold(current_risk_of(results[p]), location[p].alert_threshold)
  /\ EndCycle(p, "db_error_user")
  /\ UNCHANGED <<storeVars, now, schedVars, queue, alert_id, sweep_list,
                 attempted, fuse_calls, probeVars>>

\* an alert that points at the newest Analysis row instead of the one
\* save_analysis returned to this cycle
create_alert_newest(p) ==
  /\ pc[p] = "create"
  /\ Len(alerts) < MaxAlerts
  /\ alerts' = Append(alerts,
       [location_id |-> location[p].id,
        user_id |-> get_user(location[p].user_id),
        analysis_id |-> Len(analyses),
        risk_level |-> current_risk_of(results[p]),
        acknowledged |-> FALSE])
  /\ alert_id' = [alert_id EXCEPT ![p] = Len(alerts) + 1]
  /\ pc' = [pc EXCEPT ![p] = "notify"]
  /\ UNCHANGED <<users, phones, locations, analyses, notifications, now, schedVars, mode,
                 location, queue, results, analysis_id, sweep_list, attempted, failed,
                 outcome, reply, fuse_calls, probeVars>>

\* trigger_alert: db.create_alert inserts the row (acknowledged DEFAULT 0)
create_alert(p) ==
  /\ pc[p] = "create"
  /\ Len(alerts) < MaxAlerts
  /\ alerts' = Append(alerts,
       [location_id |-> location[p].id,
        user_id |-> get_user(location[p].user_id),
        analysis_id |-> analysis_id[p],
        risk_level |-> current_risk_of(results[p]),
        acknowledged |-> FALSE])
  /\ alert_id' = [alert_id EXCEPT ![p] = Len(alerts) + 1]
  /\ pc' = [pc EXCEPT ![p] = "notify"]
  /\ UNCHANGED <<users, phones, locations, analyses, notifications, now, schedVars, mode,
                 location, queue, results, analysis_id, sweep_list, attempted, failed,
                 outcome, reply, fuse_calls, probeVars>>

\* trigger_alert: db.create_alert raises sqlite3.Error
create_alert_fails(p) ==
  /\ pc[p] = "create"
  /\ EndCycle(p, "db_error_alert")
  /\ UNCHANGED <<storeVars, now, schedVars, queue, alert_id, sweep_list,
                 attempted, fuse_calls, probeVars>>

\* _record_notification: INSERT INTO notifications with the primary key
\* notif_<YYYYmmdd_HHMMSS>_<type>.  The insert fails when the store fails
\* (`recorded` false) or when a row of the same second and type exists;
\* either way the exception is printed and the table is left as it was.
record_notification(table, alert, notification_type, success, recorded) ==
  IF recorded /\ ~\E n \in DOMAIN table : table[n].id = <<now, notification_type>>
    THEN Append(table, [id |-> <<now, notification_type>>, alert_id |-> alert,
                        notification_type |-> notification_type,
                        status |-> IF success THEN "SENT" ELSE "FAILED"])
    ELSE table

\* the SMS branch of send_alert_notifications is taken
sms_wanted(user, risk_level) == user \in phones /\ risk_level \in {"HIGH", "EXTREME"}

\* a notification whose failure is raised to trigger_alert instead of being
\* caught where it happens
send_alert_notifications_raises(p, email_success, sms_success, recorded) ==
  /\ pc[p] = "notify"
  /\ IF email_success /\ recorded
       THEN /\ notifications' = record_notification(notifications, alert_id[p],
                                                    "EMAIL", TRUE, TRUE)
            /\ Len(notifications') <= MaxNotifications
            /\ EndCycle(p, "completed")
       ELSE /\ UNCHANGED notifications
            /\ EndCycle(p, "notification_error")
  /\ UNCHANGED <<users, phones, locations, analyses, alerts, now, schedVars, queue, alert_id,
                 sweep_list, attempted, fuse_calls, probeVars>>

\* trigger_alert: send_alert_notifications, the last statement of the check
\* cycle.  Every user has an email (NOT NULL): the e-mail is sent and
\* recorded; the SMS follows for a user with a phone and a HIGH or EXTREME
\* risk level.  send_email and send_sms return False on any failure and
\* _record_notification prints its own exception: nothing is raised.
send_alert_notifications(p, email_success, sms_success, recorded) ==
  /\ pc[p] = "notify"
  /\ LET user == get_user(location[p].user_id)
         risk_level == current_risk_of(results[p])
         after_email == record_notification(notifications, alert_id[p], "EMAIL",
                                            email_success, recorded)
         after_sms == IF sms_wanted(user, risk_level)
                        THEN record_notification(after_email, alert_id[p], "SMS",
                                                 sms_success, recorded)
                        ELSE after_email
     IN /\ Len(after_sms) <= MaxNotifications
        /\ notifications' = after_sms
  /\ EndCycle(p, "completed")
  /\ UNCHANGED <<users, phones, locations, analyses, alerts, now, schedVars, queue, alert_id,
                 sweep_list, attempted, fuse_calls, probeVars>>

\* an acknowledgement that flips the flag
acknowledge_alert_toggle(alert) ==
  /\ IF alert \in DOMAIN alerts
       THEN /\ alerts' = [alerts EXCEPT ![alert].acknowledged = ~@]
            /\ response' = [call |-> "acknowledge_alert", id |-> alert,
                             body |-> "Alert acknowledged"]
       ELSE /\ UNCHANGED alerts
            /\ response' = [call |-> "acknowledge_alert", id |-> alert,
                             body |-> "Alert not found"]
  /\ UNCHANGED <<users, phones, locations, analyses, notifications, now, schedVars,
                 cycleVars, fuse_calls, labels_dir, adapter_calls>>

\* POST /api/alerts/<alert_id>/acknowledge: UPDATE alerts SET acknowledged = 1
\* WHERE id = ?, answered 404 'Alert not found' when no row matched
acknowledge_alert(alert) ==
  /\ IF alert \in DOMAIN alerts
       THEN /\ alerts' = [alerts EXCEPT ![alert].acknowledged = TRUE]
            /\ response' = [call |-> "acknowledge_alert", id |-> alert,
                             body |-> "Alert acknowledged"]
       ELSE /\ UNCHANGED alerts
            /\ response' = [call |-> "acknowledge_alert", id |-> alert,
                             body |-> "Alert not found"]
  /\ UNCHANGED <<users, phones, locations, analyses, notifications, now, schedVars,
                 cycleVars, fuse_calls, labels_dir, adapter_calls>>

\* the UPDATE raises sqlite3.Error: answered 500, the table is left alone
acknowledge_alert_fails(alert) ==
  /\ response' = [call |-> "acknowledge_alert", id |-> alert,
                   body |-> "Failed to acknowledge alert"]
  /\ UNCHANGED <<storeVars, now, schedVars, cycleVars, fuse_calls, labels_dir,
                 adapter_calls>>

\* ------------------------------------------------------- the specification
\* a start is made while monitoring is on, or after the scheduler thread of
\* the previous start has ended (SchedulerSpec has the other starts)
OneScheduler == monitoring_active \/ \A t \in SchedThreads : pc[t] = "off"

UpdateInputs == {[monitoring_enabled |-> FALSE], [monitoring_enabled |-> TRUE]}

Next ==
  \/ create_user(FALSE)
  \/ \E u \in users \cup {NoSuchUser}, th \in ThresholdInputs :
       app_add_location(u, 0, 0, th)
  \/ \E l \in 1..MaxLocations, kw \in UpdateInputs : app_update_location(l, kw)
  \/ OneScheduler /\ start_monitoring
  \/ stop_monitoring
  \/ \E t \in SchedThreads : run_scheduler_exit(t)
  \/ \E t \in SchedThreads : run_pending(t)
  \/ \E t \in SchedThreads : check_all_locations(t)
  \/ \E t \in SchedThreads : sweep_loop(t)
  \/ \E c \in Callers, l \in 1..MaxLocations : manual_check_location(c, l)
  \/ \E p \in Procs : check_location_no_image(p)
  \/ \E p \in Procs, in \in AnalysisInputs : check_location_analyze(p, in[1], in[2])
  \/ \E p \in Procs : check_location_analyze_raises(p)
  \/ \E p \in Procs : Len(analyses) < MaxAnalyses /\ save_analysis_insert(p)
  \/ \E p \in Procs : save_analysis_insert_fails(p)
  \/ \E p \in Procs : save_analysis_mark(p)
  \/ \E p \in Procs : save_analysis_mark_fails(p)
  \/ \E p \in Procs : evaluate_alerts(p)
  \/ \E p \in Procs : evaluate_alerts_fails(p)
  \/ \E p \in Procs : create_alert(p)
  \/ \E p \in Procs : create_alert_fails(p)
  \/ \E p \in Procs, email_success \in BOOLEAN, recorded \in BOOLEAN :
       send_alert_notifications(p, email_success, TRUE, recorded)

Spec == Init /\ [][Next]_vars

\* ------------------------------------------- the fusion called on its own
\* sampled inputs: confidences and oracle scores on both sides of every
\* threshold of the fusion
ConfSamples == {0, 20, 21, 50, 51, 80, 81, 100}
VrsSamples == {0, 29, 30, 39, 40, 59, 60, 65, 69, 70, 79, 80, 99, 100}

FusionDetections ==
  {[total_cyclones |-> n, avg_confidence |-> c] : n \in {0, 2}, c \in ConfSamples}
    \cup {detect_cyclones(TRUE, FALSE, <<>>), detect_cyclones(FALSE, FALSE, <<>>)}

FusionOracles ==
  {calculate_astrology_risk(FALSE, FALSE, v) : v \in VrsSamples}
    \cup {calculate_astrology_risk(FALSE, TRUE, 0), calculate_astrology_risk(TRUE, FALSE, 0)}

\* one call of generate_combined_risk_assessment, logged with what it returned
fuse(detection_results, astrology_results) ==
  /\ fuse_calls' =
       <<[detection |-> detection_results, astrology |-> astrology_results,
          out |-> generate_combined_risk_assessment(
                    detection_results, astrology_results, now)]>>
  /\ UNCHANGED <<storeVars, now, schedVars, cycleVars, probeVars>>

\* a further call with the inputs of the logged one
fuse_again ==
  /\ fuse_calls # <<>>
  /\ Len(fuse_calls) < MaxFuseCalls
  /\ fuse_calls' = Append(fuse_calls,
       [detection |-> fuse_calls[1].detection, astrology |-> fuse_calls[1].astrology,
        out |-> generate_combined_risk_assessment(
                  fuse_calls[1].detection, fuse_calls[1].astrology, now)])
  /\ UNCHANGED <<storeVars, now, schedVars, cycleVars, probeVars>>

FusionNext ==
  \/ \E d \in FusionDetections, o \in FusionOracles : fuse(d, o)
  \/ fuse_again
  \/ Tick

FusionSpec == Init /\ [][FusionNext]_vars

\* ---------------------------------- the enhanced fusion called on its own
Qualities == DOMAIN quality_scores \cup {"NO_DETECTION"}

EnhancedDetections ==
  {[total_cyclones |-> n, avg_confidence |-> c, detection_quality |-> q] :
     n \in {0, 1, 3}, c \in {20, 90}, q \in Qualities}
    \cup {detect_cyclones(TRUE, FALSE, <<>>), detect_cyclones(FALSE, TRUE, <<90, 90>>)}

MeteorologicalInputs ==
  {NoMeteorological, [error |-> TRUE]}
    \cup {[max_intensity |-> k, total_eyes_detected |-> e, overall_risk_level |-> l] :
            k \in {0, 3, 5}, e \in {0, 1}, l \in {"Low", "High"}}

\* one call of generate_enhanced_combined_assessment, logged with its result
fuse_enhanced(detection_results, enhanced_meteorological, astrology_results) ==
  /\ fuse_calls' =
       <<[detection |-> detection_results,
          meteorological |-> enhanced_meteorological,
          astrology |-> astrology_results,
          out |-> generate_enhanced_combined_assessment(
                    detection_results, enhanced_meteorological, astrology_results, now)]>>
  /\ UNCHANGED <<storeVars, now, schedVars, cycleVars, probeVars>>

\* one call per behaviour, of either fusion
EnhancedNext ==
  \/ \E d \in EnhancedDetections, m \in MeteorologicalInputs, o \in FusionOracles :
       fuse_calls = <<>> /\ fuse_enhanced(d, m, o)
  \/ \E d \in FusionDetections \cup EnhancedDetections, o \in FusionOracles :
       fuse_calls = <<>> /\ fuse(d, o)

EnhancedSpec == Init /\ [][EnhancedNext]_vars

\* --------------------------------------- the location registry on its own
LatSamples == {-91, -90, 0, 90, 91}
LngSamples == {-181, -180, 0, 180, 181}

RegistryUpdates ==
  {<<>>}
    \cup {[latitude |-> x] : x \in LatSamples}
    \cup {[longitude |-> y] : y \in LngSamples}
    \cup {[monitoring_enabled |-> FALSE]}

RegistryNext ==
  \/ create_user(FALSE)
  \/ \E u \in users \cup {NoSuchUser}, x \in LatSamples, y \in LngSamples :
       app_add_location(u, x, y, "MODERATE")
  \/ \E l \in 1..MaxLocations, data \in RegistryUpdates : app_update_location(l, data)

RegistrySpec == Init /\ [][RegistryNext]_vars

\* -------------------------- the evaluator called again on a stored analysis
EvaluatorNext ==
  \/ create_user(FALSE)
  \/ \E u \in users, th \in ThresholdInputs : app_add_location(u, 0, 0, th)
  \/ \E c \in Callers, l \in 1..MaxLocations : manual_check_location(c, l)
  \/ \E p \in Procs, in \in AnalysisInputs : check_location_analyze(p, in[1], in[2])
  \/ \E p \in Procs : Len(analyses) < MaxAnalyses /\ save_analysis_insert(p)
  \/ \E p \in Procs : save_analysis_mark(p)
  \/ \E c \in Callers, a \in 1..MaxAnalyses : evaluate_alerts_call(c, a)
  \/ \E p \in Procs : evaluate_alerts(p)
  \/ \E p \in Procs : create_alert(p)
  \/ \E p \in Procs, email_success \in BOOLEAN :
       send_alert_notifications(p, email_success, TRUE, TRUE)

EvaluatorSpec == Init /\ [][EvaluatorNext]_vars

\* ------------------- sweeps and manual checks side by side, the clock running
CycleNext ==
  \/ create_user(FALSE)
  \/ \E u \in users : app_add_location(u, 0, 0, "LOW")
  \/ OneScheduler /\ start_monitoring
  \/ \E t \in SchedThreads : run_pending(t)
  \/ \E t \in SchedThreads : check_all_locations(t)
  \/ \E t \in SchedThreads : sweep_loop(t)
  \/ \E c \in Callers, l \in 1..MaxLocations : manual_check_location(c, l)
  \/ \E p \in Procs, in \in AnalysisInputs : check_location_analyze(p, in[1], in[2])
  \/ \E p \in Procs : Len(analyses) < MaxCycleAnalyses /\ save_analysis_insert(p)
  \/ \E p \in Procs : save_analysis_mark(p)
  \/ \E p \in Procs : evaluate_alerts(p)
  \/ \E p \in Procs : create_alert(p)
  \/ \E p \in Procs : send_alert_notifications(p, TRUE, TRUE, TRUE)
  \/ Tick

CycleSpec == Init /\ [][CycleNext]_vars

\* ------------------------------------------- update_location called directly
UpdateKwargs ==
  {<<>>,
   [alert_threshold |-> "HIGH"],
   [monitoring_enabled |-> FALSE],
   [latitude |-> 10, longitude |-> 20],
   [last_analysis |-> 0],
   [elevation |-> 3]}

UpdateNext ==
  \/ create_user(FALSE)
  \/ \E u \in users, x \in {0, 45}, th \in ThresholdInputs : app_add_location(u, x, 0, th)
  \/ \E l \in 1..(MaxLocations + 1), kwargs \in UpdateKwargs : update_location(l, kwargs)

UpdateSpec == Init /\ [][UpdateNext]_vars

\* ------------------------------------ reports with detections being stored
\* reports that json.dumps accepts (the oracle fell back), without and with
\* detections, and one it refuses
RecordInputs ==
  {<<detect_cyclones(TRUE, FALSE, <<>>), calculate_astrology_risk(FALSE, TRUE, 0)>>,
   <<detect_cyclones(FALSE, TRUE, <<>>), calculate_astrology_risk(FALSE, TRUE, 0)>>,
   <<detect_cyclones(FALSE, TRUE, <<90, 90>>), calculate_astrology_risk(FALSE, TRUE, 0)>>,
   <<detect_cyclones(FALSE, TRUE, <<60, 30>>), calculate_astrology_risk(FALSE, TRUE, 0)>>,
   <<detect_cyclones(FALSE, TRUE, <<90, 90>>), calculate_astrology_risk(FALSE, FALSE, 40)>>}

RecordNext ==
  \/ create_user(FALSE)
  \/ \E u \in users, th \in ThresholdInputs : app_add_location(u, 0, 0, th)
  \/ \E c \in Callers, l \in 1..MaxLocations : manual_check_location(c, l)
  \/ \E p \in Procs, in \in RecordInputs : check_location_analyze(p, in[1], in[2])
  \/ \E p \in Procs : Len(analyses) < MaxCycleAnalyses /\ save_analysis_insert(p)
  \/ \E p \in Procs : save_analysis_mark(p)
  \/ \E p \in Procs : evaluate_alerts(p)
  \/ \E p \in Procs : create_alert(p)
  \/ \E p \in Procs : send_alert_notifications(p, TRUE, TRUE, TRUE)

RecordSpec == Init /\ [][RecordNext]_vars

\* ------------------------------------- starts and stops in any succession
SchedulerNext ==
  \/ create_user(FALSE)
  \/ \E u \in users : app_add_location(u, 0, 0, "LOW")
  \/ start_monitoring
  \/ stop_monitoring
  \/ \E t \in SchedThreads : run_scheduler_exit(t)
  \/ \E t \in SchedThreads : run_pending(t)
  \/ \E t \in SchedThreads : check_all_locations(t)
  \/ \E t \in SchedThreads : sweep_loop(t)
  \/ \E p \in SchedThreads : check_location_no_image(p)
  \/ \E p \in SchedThreads, in \in AnalysisInputs : check_location_analyze(p, in[1], in[2])
  \/ \E p \in SchedThreads : Len(analyses) < MaxAnalyses /\ save_analysis_insert(p)
  \/ \E p \in SchedThreads : save_analysis_mark(p)
  \/ \E p \in SchedThreads : evaluate_alerts(p)
  \/ \E p \in SchedThreads : create_alert(p)
  \/ \E p \in SchedThreads : send_alert_notifications(p, TRUE, TRUE, TRUE)

SchedulerSpec == Init /\ [][SchedulerNext]_vars

\* ------------------------------------ evaluate_alerts on labels of any kind
\* thresholds as add_location stores them (whatever the request sent) and
\* assessed tiers, the four known ones and others
ThresholdLabels == Tiers \cup {"SEVERE", "moderate"}
RiskLabels == Tiers \cup {"VERY_HIGH", "LOW_TO_MODERATE", "UNKNOWN"}

LabelNext ==
  \/ create_user(FALSE)
  \/ \E u \in users, th \in ThresholdLabels : app_add_location(u, 0, 0, th)
  \/ \E c \in Callers, l \in 1..MaxLocations : manual_check_location(c, l)
  \/ \E p \in Procs, in \in AnalysisInputs : check_location_analyze(p, in[1], in[2])
  \/ \E p \in Procs : Len(analyses) < MaxAnalyses /\ save_analysis_insert(p)
  \/ \E p \in Procs : save_analysis_mark(p)
  \/ \E c \in Callers, a \in 1..MaxAnalyses, label \in RiskLabels :
       evaluate_alerts_with(c, a, label)
  \/ \E p \in Procs : evaluate_alerts(p)
  \/ \E p \in Procs : create_alert(p)
  \/ \E p \in Procs : send_alert_notifications(p, TRUE, TRUE, TRUE)

LabelSpec == Init /\ [][LabelNext]_vars

\* -------------------------- notifications of alerts raised close together
NotificationNext ==
  \/ \E phone \in BOOLEAN : create_user(phone)
  \/ \E u \in users : app_add_location(u, 0, 0, "LOW")
  \/ OneScheduler /\ start_monitoring
  \/ \E t \in SchedThreads : run_pending(t)
  \/ \E t \in SchedThreads : check_all_locations(t)
  \/ \E t \in SchedThreads : sweep_loop(t)
  \/ \E p \in Procs, in \in AnalysisInputs : check_location_analyze(p, in[1], in[2])
  \/ \E p \in Procs : Len(analyses) < MaxCycleAnalyses /\ save_analysis_insert(p)
  \/ \E p \in Procs : save_analysis_mark(p)
  \/ \E c \in Callers, a \in 1..MaxCycleAnalyses, label \in {"MODERATE", "HIGH"} :
       evaluate_alerts_with(c, a, label)
  \/ \E p \in Procs : evaluate_alerts(p)
  \/ \E p \in Procs : create_alert(p)
  \/ \E p \in Procs, email_success \in BOOLEAN, sms_success \in BOOLEAN :
       send_alert_notifications(p, email_success, sms_success, TRUE)
  \/ Tick

NotificationSpec == Init /\ [][NotificationNext]_vars

\* ------------------------------------------------ the oracle on its own
PlanetaryInputs ==
  {[malefic_in_water_sign |-> m, sun_moon |-> sm, saturn_in_critical_house |-> h,
    axis_in_water_sign |-> x, mars_saturn |-> ms, malefic_in_water_nakshatra |-> mn,
    luminary_in_water_nakshatra |-> ln, critical_tithi |-> ti,
    ascendant_in_water_sign |-> asc, monsoon |-> mo, tropical |-> tr] :
     m \in {0, 2, 4}, sm \in {"none", "conjunction", "opposition"}, h \in BOOLEAN,
     x \in BOOLEAN, ms \in {"none", "conjunction"}, mn \in {0, 4}, ln \in {0, 2},
     ti \in BOOLEAN, asc \in BOOLEAN, mo \in BOOLEAN, tr \in BOOLEAN}

\* one call of get_cyclone_prediction, logged with what it returned;
\* `raised` says that calculate_planetary_positions or calculate_vrs_score
\* raised
get_cyclone_prediction_call(raised, planetary_data) ==
  /\ adapter_calls' =
       <<[adapter |-> "get_cyclone_prediction", raised |-> raised,
          planetary_data |-> planetary_data,
          out |-> get_cyclone_prediction(
                    raised, calculate_vrs_score(planetary_data).vrs_score)]>>
  /\ UNCHANGED <<storeVars, now, schedVars, cycleVars, fuse_calls, response, labels_dir>>

\* one call per behaviour
OracleNext ==
  \E raised \in BOOLEAN, planetary_data \in PlanetaryInputs :
    adapter_calls = <<>> /\ get_cyclone_prediction_call(raised, planetary_data)

OracleSpec == Init /\ [][OracleNext]_vars

\* ------------------------------------------- the detection run repeatedly
\* the confidences (percent) that one run of the detector finds
OwnScores == {<<>>, <<90>>, <<30, 60>>}

\* where a run of yolov5/detect.py puts its label lines: into the labels
\* directory that detect_cyclones reads, beside what is there, or into a
\* directory of its own
Placements == {"same", "elsewhere"}

\* one call of detect_cyclones.  subprocess.run either raises, or the
\* detector has run and left its label lines; detect_cyclones then reads
\* every line of every .txt file of runs/detect/astroalert_detection/labels.
\* Nothing in detect_cyclones empties that directory.
detect_cyclones_call(raised, own, placement) ==
  /\ Len(adapter_calls) < MaxDetectCalls
  /\ labels_dir' =
       IF raised \/ placement = "elsewhere"
         THEN labels_dir
         ELSE [exists |-> TRUE, lines |-> labels_dir.lines \o own]
  /\ adapter_calls' = Append(adapter_calls,
       [adapter |-> "detect_cyclones", own |-> own,
        out |-> detect_cyclones(raised, labels_dir'.exists, labels_dir'.lines)])
  /\ UNCHANGED <<storeVars, now, schedVars, cycleVars, fuse_calls, response>>

DetectNext ==
  \E raised \in BOOLEAN, own \in OwnScores, placement \in Placements :
    detect_cyclones_call(raised, own, placement)

DetectSpec == Init /\ [][DetectNext]_vars

\* ------------------------------ alerts raised by checks and acknowledged
AlertNext ==
  \/ create_user(FALSE)
  \/ \E u \in users : app_add_location(u, 0, 0, "LOW")
  \/ \E c \in Callers, l \in 1..MaxLocations : manual_check_location(c, l)
  \/ \E p \in Procs, in \in AnalysisInputs : check_location_analyze(p, in[1], in[2])
  \/ \E p \in Procs : Len(analyses) < MaxCycleAnalyses /\ save_analysis_insert(p)
  \/ \E p \in Procs : save_analysis_mark(p)
  \/ \E p \in Procs : evaluate_alerts(p)
  \/ \E p \in Procs : create_alert(p)
  \/ \E p \in Procs : send_alert_notifications(p, TRUE, TRUE, TRUE)
  \/ \E a \in 1..(MaxAlerts + 1) : acknowledge_alert(a)
  \/ \E a \in 1..(MaxAlerts + 1) : acknowledge_alert_fails(a)

AlertSpec == Init /\ [][AlertNext]_vars

\* ================================================================ claims
\* the fixed order LOW < MODERATE < HIGH < EXTREME of the specification
tierRank(tier) ==
  CASE tier = "LOW" -> 1 [] tier = "MODERATE" -> 2
    [] tier = "HIGH" -> 3 [] tier = "EXTREME" -> 4

\* a thread is inside a check cycle (check_location has been entered and
\* has not returned)
InCycle(p) ==
  /\ mode[p] \in {"sweep", "manual"}
  /\ pc[p] \in {"check", "save", "mark", "evaluate", "create", "notify"}

\* this step is the return of check_location (or of a direct evaluate_alerts)
Returns(p) == outcome[p] = "none" /\ outcome'[p] # "none"

\* C1: evaluate_alerts creates an Alert for its (location, analysis) pair if
\* and only if the rank of the assessed tier is at least the rank of the
\* location's threshold: whenever an evaluation returns normally, it has
\* created an Alert exactly when tierRank(final) >= tierRank(threshold).
C1_AlertIffRankMet ==
  [][\A p \in Procs :
       (/\ pc[p] \in {"evaluate", "notify"}
        /\ outcome'[p] = "completed"
        /\ location[p].alert_threshold \in Tiers)
       => ((alert_id'[p] # NoId)
            <=> tierRank(current_risk_of(results[p]))
                  >= tierRank(location[p].alert_threshold))]_vars

\* C2: the alerts table never holds two Alerts with the same analysis_id,
\* also after evaluate_alerts ran twice on one analysis.
C2_AtMostOneAlertPerAnalysis ==
  \A i \in DOMAIN alerts : \A j \in DOMAIN alerts :
    alerts[i].analysis_id = alerts[j].analysis_id => i = j

\* C3: two check cycles for one location are never in flight at the same
\* time (a manual check of a location that is mid-check is rejected).
C3_OneCyclePerLocation ==
  \A p \in Procs : \A q \in Procs :
    (p # q /\ InCycle(p) /\ InCycle(q)) => location[p].id # location[q].id

\* C4: for every valid detection result and every oracle result with
\* vrs_score in 0..100, generate_combined_risk_assessment returns a score in
\* [0,100] and the tier of the table: EXTREME from 70, HIGH from 50,
\* MODERATE from 30 (lower bounds inclusive), LOW below.  Scores in tenths.
C4_ScoreInRangeTierByTable ==
  \A i \in DOMAIN fuse_calls :
    LET assessment == fuse_calls[i].out.combined_assessment
        score == assessment.combined_risk_score
        tier == assessment.final_risk_level
    IN /\ score >= 0 /\ score <= 1000
       /\ tier = "EXTREME" <=> score >= 700
       /\ tier = "HIGH" <=> (score >= 500 /\ score < 700)
       /\ tier = "MODERATE" <=> (score >= 300 /\ score < 500)
       /\ tier = "LOW" <=> score < 300

\* a fusion whose score lies exactly on a lower bound of the table
C4_Witness ==
  \E i \in DOMAIN fuse_calls :
    /\ fuse_calls[i].out.combined_assessment.combined_risk_score = 500
    /\ fuse_calls[i].out.combined_assessment.final_risk_level = "HIGH"
    /\ fuse_calls[i].detection.total_cyclones > 0

\* C5: a check cycle that fails at any step leaves no row behind: when
\* check_location ends with a failure, the cycle has inserted no Analysis
\* (and no Alert).
C5_FailedCycleWritesNothing ==
  [][\A p \in Procs :
       (InCycle(p) /\ Returns(p) /\ outcome'[p] \in Failures)
       => (analysis_id[p] = NoId /\ alert_id[p] = NoId)]_vars

\* C6: manual_check_location answers success only for a check cycle that
\* completed (an Analysis was appended and the alert rule evaluated).
C6_SuccessOnlyWhenCompleted ==
  \A c \in Callers : reply[c] = "success" => outcome[c] = "completed"

\* C7: within one sweep the failure of one location's check cycle does not
\* abort the sweep and leaves the scheduler running: the failing step hands
\* control back to the loop with the rest of the sweep's locations still
\* queued and the scheduler's flag and job untouched, and the sweep ends
\* only when every location of its list had its check cycle attempted.
C7_SweepSurvivesFailure ==
  [][\A t \in SchedThreads :
       /\ (InCycle(t) /\ Returns(t) /\ outcome'[t] \in Failures)
            => /\ pc'[t] = "loop"
               /\ queue'[t] = queue[t]
               /\ monitoring_active' = monitoring_active
               /\ jobs' = jobs
       /\ (pc[t] = "loop" /\ pc'[t] \notin {"loop", "check"})
            => attempted[t] = Range(sweep_list[t])]_vars

\* a sweep in which one location's cycle failed is checking another location
C7_Witness ==
  \E t \in SchedThreads :
    /\ pc[t] = "check"
    /\ failed[t] # {}
    /\ location[t].id \notin failed[t]
    /\ monitoring_active

\* C8: when both adapters fail the fusion returns score 0, tier LOW and
\* confidence Low.
C8_BothAdaptersFail ==
  \A p \in Procs :
    (/\ results[p] # NoResults
     /\ "error" \in DOMAIN results[p].results.detection
     /\ results[p].results.astrology.system_status = "error")
    => LET assessment == results[p].results.combined.combined_assessment
       IN /\ assessment.combined_risk_score = 0
          /\ assessment.final_risk_level = "LOW"
          /\ assessment.confidence = "Low"

\* C9: for a location with threshold HIGH, a check cycle assessed MODERATE
\* creates no Alert and a check cycle assessed HIGH creates exactly one
\* Alert, unacknowledged and pointing at the Analysis of that cycle
\* (cycles cut short by a store error aside).
StoreErrors == {"db_error_insert", "db_error_mark", "db_error_user", "db_error_alert"}

C9_HighThresholdScenario ==
  [][\A p \in Procs :
       (/\ InCycle(p) /\ Returns(p)
        /\ outcome'[p] \notin StoreErrors
        /\ results[p] # NoResults
        /\ location[p].alert_threshold = "HIGH")
       => /\ current_risk_of(results[p]) = "MODERATE" => alert_id'[p] = NoId
          /\ current_risk_of(results[p]) = "HIGH" =>
               /\ alert_id'[p] \in DOMAIN alerts'
               /\ alerts'[alert_id'[p]].acknowledged = FALSE
               /\ alerts'[alert_id'[p]].analysis_id = analysis_id[p]
               /\ analysis_id[p] \in DOMAIN analyses'
               /\ \A i \in DOMAIN alerts' :
                    alerts'[i].analysis_id = analysis_id[p] => i = alert_id'[p]]_vars

\* C10: two calls of generate_combined_risk_assessment with identical
\* inputs return identical outputs in every field.
C10_FusionDeterministic ==
  \A i \in DOMAIN fuse_calls : \A j \in DOMAIN fuse_calls :
    (/\ fuse_calls[i].detection = fuse_calls[j].detection
     /\ fuse_calls[i].astrology = fuse_calls[j].astrology)
    => fuse_calls[i].out = fuse_calls[j].out

\* C14: start and stop are idempotent.  While the scheduler stays RUNNING
\* no call registers a further job or starts a further thread, and while it
\* stays STOPPED no call registers a job or starts a thread either.
C14_StartStopIdempotent ==
  [][/\ (monitoring_active /\ monitoring_active')
          => /\ jobs' = jobs
             /\ \A t \in SchedThreads : pc[t] = "off" => pc'[t] = "off"
     /\ (~monitoring_active /\ ~monitoring_active')
          => /\ jobs' = jobs /\ jobs = 0
             /\ \A t \in SchedThreads : pc[t] = "off" => pc'[t] = "off"]_vars

\* the scheduler is RUNNING with its one job and a sweep under way
C14_Witness ==
  /\ monitoring_active
  /\ jobs = 1
  /\ \E t \in SchedThreads : pc[t] = "check"

\* C15: stop_monitoring leaves every check cycle in flight as it is, and
\* after it has returned no sweep begins while the scheduler is STOPPED.
C15_StopLetsCyclesFinishAndNoNewSweep ==
  [][/\ (monitoring_active /\ ~monitoring_active')
          => UNCHANGED <<pc, location, queue, results, analyses, alerts>>
     /\ \A t \in SchedThreads :
          (pc[t] = "due" /\ pc'[t] # "due") => monitoring_active]_vars

\* a logged call of the enhanced fusion (of the legacy fusion otherwise)
IsEnhancedCall(call) == "enhanced_combined_assessment" \in DOMAIN call.out

\* C11: a detection summary of quality EXCELLENT (50 ai risk points) fused
\* with an oracle score of 80 gives the combined score 65 and the tier HIGH.
C11_ExcellentWith80IsHigh65 ==
  \A i \in DOMAIN fuse_calls :
    LET call == fuse_calls[i]
    IN (/\ IsEnhancedCall(call)
        /\ call.out.analysis_components.yolo_detection.ai_risk_score = 50
        /\ call.astrology.vrs_analysis.vrs_score = 80)
       => /\ call.out.enhanced_combined_assessment.combined_risk_score = 6500
          /\ call.out.enhanced_combined_assessment.final_risk_level = "HIGH"

\* C12: a detection summary with no detection fused with an oracle score of
\* 65 has 0 ai risk points, the combined score 32.5 and the tier MODERATE.
C12_NoDetectionWith65IsModerate ==
  \A i \in DOMAIN fuse_calls :
    LET call == fuse_calls[i]
    IN (/\ ~IsEnhancedCall(call)
        /\ call.detection.total_cyclones = 0
        /\ call.astrology.vrs_analysis.vrs_score = 65)
       => /\ call.out.ai_detection.ai_risk_score = 0
          /\ call.out.combined_assessment.combined_risk_score = 325
          /\ call.out.combined_assessment.final_risk_level = "MODERATE"

\* the fusion was called with no detection and the oracle score 65
C12_Witness ==
  \E i \in DOMAIN fuse_calls :
    /\ fuse_calls[i].detection.total_cyclones = 0
    /\ "error" \notin DOMAIN fuse_calls[i].detection
    /\ fuse_calls[i].astrology.vrs_analysis.vrs_score = 65
    /\ fuse_calls[i].out.combined_assessment.final_risk_level = "MODERATE"

\* d2 is d1 with a larger total count, or with a larger average confidence,
\* and nothing else changed
LargerOnly(d1, d2) ==
  /\ DOMAIN d1 = DOMAIN d2
  /\ {"total_cyclones", "avg_confidence"} \subseteq DOMAIN d1
  /\ \A k \in DOMAIN d1 \ {"total_cyclones", "avg_confidence"} : d1[k] = d2[k]
  /\ \/ d2.total_cyclones > d1.total_cyclones /\ d2.avg_confidence = d1.avg_confidence
     \/ d2.avg_confidence > d1.avg_confidence /\ d2.total_cyclones = d1.total_cyclones

\* the ai risk points a logged call gave its detection summary
PointsGiven(call) ==
  IF IsEnhancedCall(call)
    THEN call.out.analysis_components.yolo_detection.ai_risk_score
    ELSE call.out.ai_detection.ai_risk_score

\* the ai risk points the same fusion gives another summary
PointsFor(call, d) ==
  IF IsEnhancedCall(call) THEN calculate_base_ai_risk(d) ELSE ai_risk_of(d)

\* C13: ai risk points are monotonic: a summary that differs from the one of
\* a call only by a larger total count, or only by a larger average
\* confidence, never gets fewer points than the call gave.
C13_AiRiskMonotonic ==
  \A i \in DOMAIN fuse_calls :
    \A d2 \in FusionDetections \cup EnhancedDetections :
      LargerOnly(fuse_calls[i].detection, d2)
        => PointsFor(fuse_calls[i], d2) >= PointsGiven(fuse_calls[i])

\* a call whose summary gets strictly more points when its confidence grows
C13_Witness ==
  \E i \in DOMAIN fuse_calls :
    \E d2 \in FusionDetections \cup EnhancedDetections :
      /\ LargerOnly(fuse_calls[i].detection, d2)
      /\ d2.avg_confidence > fuse_calls[i].detection.avg_confidence
      /\ PointsFor(fuse_calls[i], d2) > PointsGiven(fuse_calls[i])

\* C16: a failed notification does not fail the check cycle and undoes
\* nothing: whatever send_alert_notifications does, the cycle ends as
\* completed and the Analysis and the Alert of the cycle stay stored.
C16_NotificationFailureIsHarmless ==
  [][\A p \in Procs :
       (pc[p] = "notify" /\ pc'[p] # "notify")
       => /\ outcome'[p] = "completed"
          /\ analyses' = analyses
          /\ alerts' = alerts
          /\ alert_id'[p] \in DOMAIN alerts'
          /\ alerts'[alert_id'[p]].analysis_id \in DOMAIN analyses']_vars

\* a cycle completed whose e-mail failed or whose notification row could not
\* be written, with its Alert in the table
C16_Witness ==
  \E p \in Procs :
    /\ mode[p] # "direct" /\ outcome[p] = "completed"
    /\ alert_id[p] \in DOMAIN alerts
    /\ alerts[alert_id[p]].analysis_id \in DOMAIN analyses
    /\ \A n \in DOMAIN notifications :
         notifications[n].alert_id = alert_id[p] => notifications[n].status = "FAILED"

\* C17: every stored Location has its latitude in [-90, 90] and its
\* longitude in [-180, 180], whatever add and update requests were made.
C17_CoordinatesInRange ==
  \A i \in DOMAIN locations :
    /\ -90 <= locations[i].latitude /\ locations[i].latitude <= 90
    /\ -180 <= locations[i].longitude /\ locations[i].longitude <= 180

\* the ids of the locations whose monitoring_enabled flag is set
EnabledIds == {i \in DOMAIN locations : locations[i].monitoring_enabled}

NotActiveReply == "Location not found or not active"

\* C18: a check cycle runs only for a location that was enabled when the
\* active list was read.  A sweep reads exactly the enabled locations and
\* checks each of them once and no other; a manual check enters a cycle
\* only for an enabled location, and the answer 'Location not found or not
\* active' comes with no cycle, no Analysis and no Alert.
C18_OnlyEnabledLocationsChecked ==
  [][/\ \A t \in SchedThreads :
          /\ (pc[t] = "due" /\ pc'[t] # "due")
               => Range(sweep_list'[t]) = EnabledIds
          /\ (pc[t] = "loop" /\ pc'[t] = "check")
               => /\ location'[t].id \in Range(sweep_list[t])
                  /\ location'[t].id \notin attempted[t]
          /\ (pc[t] = "loop" /\ pc'[t] = "poll")
               => attempted[t] = Range(sweep_list[t])
     /\ \A c \in Callers :
          /\ (pc[c] = "idle" /\ pc'[c] = "check")
               => location'[c].id \in EnabledIds
          /\ (reply[c] # NotActiveReply /\ reply'[c] = NotActiveReply)
               => /\ pc'[c] = "idle"
                  /\ UNCHANGED <<analyses, alerts>>]_vars

\* a sweep is checking a location while another one is disabled and left out
\* of it, and a manual check was answered 'not found or not active'
C18_Witness ==
  /\ \E t \in SchedThreads :
       /\ pc[t] = "check"
       /\ \E i \in DOMAIN locations : i \notin EnabledIds /\ i \notin Range(sweep_list[t])
  /\ \E c \in Callers : reply[c] = NotActiveReply

\* C19: within one location the Analysis rows are ordered by timestamp in
\* the order they were appended.  Stated in the weaker form "a row appended
\* later never has a smaller timestamp", which the strict order implies, so
\* that a violation does not rest on two readings of the clock being equal.
C19_TimestampsFollowAppendOrder ==
  \A i \in DOMAIN analyses : \A j \in DOMAIN analyses :
    (i < j /\ analyses[i].location_id = analyses[j].location_id)
    => analyses[i].analysis_timestamp <= analyses[j].analysis_timestamp

\* C20: every Alert references the Analysis that triggered it.  The step
\* that creates an Alert stores the id of the Analysis its own check cycle
\* appended, that Analysis belongs to the Alert's location and has the
\* Alert's risk level, and rows of both tables are never changed afterwards.
C20_AlertReferencesItsAnalysis ==
  [][/\ \A p \in Procs :
          (pc[p] = "create" /\ pc'[p] = "notify")
          => /\ Len(alerts') = Len(alerts) + 1
             /\ analysis_id[p] \in DOMAIN analyses
             /\ LET alert == alerts'[Len(alerts')]
                    analysis == analyses[analysis_id[p]]
                IN /\ alert.analysis_id = analysis_id[p]
                   /\ alert.location_id = location[p].id
                   /\ analysis.location_id = alert.location_id
                   /\ analysis.analysis_timestamp = results[p].analysis_timestamp
                   /\ alert.risk_level = analysis.final_risk_level
     /\ \A i \in DOMAIN analyses : i \in DOMAIN analyses' /\ analyses'[i] = analyses[i]
     /\ \A i \in DOMAIN alerts : i \in DOMAIN alerts' /\ alerts'[i] = alerts[i]]_vars

\* two cycles overlapped: the Alert created first belongs to the Analysis
\* appended second
C20_Witness ==
  /\ Len(alerts) = 2
  /\ alerts[1].analysis_id = 2
  /\ alerts[2].analysis_id = 1
  /\ \A a \in DOMAIN alerts :
       analyses[alerts[a].analysis_id].location_id = alerts[a].location_id

\* C21: acknowledgement is monotonic.  No step takes an Alert away or sets
\* its acknowledged flag back to false; an acknowledgement of a stored
\* Alert leaves it acknowledged (also when it already was) and touches no
\* other Alert; an acknowledgement of an unknown id is answered 'Alert not
\* found' and changes no Alert.
C21_AcknowledgementMonotonic ==
  [][/\ \A i \in DOMAIN alerts :
          /\ i \in DOMAIN alerts'
          /\ alerts[i].acknowledged => alerts'[i].acknowledged
     /\ (response' # response /\ response'.call = "acknowledge_alert"
           /\ response'.body # "Failed to acknowledge alert")
          => IF response'.id \in DOMAIN alerts
               THEN /\ response'.body = "Alert acknowledged"
                    /\ alerts'[response'.id].acknowledged
                    /\ \A i \in DOMAIN alerts \ {response'.id} : alerts'[i] = alerts[i]
               ELSE /\ response'.body = "Alert not found"
                    /\ alerts' = alerts]_vars

\* an Alert is acknowledged, another one is not, and the last request, for
\* an id that is not in the table, was answered 'Alert not found'
C21_Witness ==
  /\ \E i \in DOMAIN alerts : alerts[i].acknowledged
  /\ \E i \in DOMAIN alerts : ~alerts[i].acknowledged
  /\ response.call = "acknowledge_alert"
  /\ response.id \notin DOMAIN alerts
  /\ response.body = "Alert not found"

C23_EnhancedTierByFixedTable ==
  \A i \in DOMAIN fuse_calls :
    IsEnhancedCall(fuse_calls[i]) =>
      LET assessment == fuse_calls[i].out.enhanced_combined_assessment
          score == assessment.combined_risk_score
          tier == assessment.final_risk_level
      IN /\ score >= 0 /\ score <= 10000
         /\ tier \in Tiers
         /\ tier = "EXTREME" <=> score >= 7000
         /\ tier = "HIGH" <=> (score >= 5000 /\ score < 7000)
         /\ tier = "MODERATE" <=> (score >= 3000 /\ score < 5000)
         /\ tier = "LOW" <=> score < 3000

\* the rows of the analyses table that belong to a location
AnalysesOf(l) == {a \in DOMAIN analyses : analyses[a].location_id = l}

\* the row of a location that was appended last
NewestOf(l) == CHOOSE a \in AnalysesOf(l) : \A b \in AnalysesOf(l) : b <= a

\* C24: whenever no check cycle is in flight, the last_analysis of every
\* location is the analysis_timestamp of the Analysis appended last for that
\* location, and null for a location without Analysis.
C24_LastAnalysisIsNewest ==
  (\A p \in Procs : ~InCycle(p))
  => \A l \in DOMAIN locations :
       locations[l].last_analysis =
         IF AnalysesOf(l) = {} THEN NoTime
         ELSE analyses[NewestOf(l)].analysis_timestamp

\* C25: the denormalized columns of every stored Analysis equal the values
\* of the report it was saved from: the detection count, the average
\* confidence and the ai risk points of the report's ai_detection part, the
\* oracle's score and level, the combined score and the final tier.
C25_ColumnsEqualReport ==
  \A a \in DOMAIN analyses :
    LET row == analyses[a]
        combined == row.full_results.results.combined
    IN /\ row.analysis_timestamp = row.full_results.analysis_timestamp
       /\ row.ai_cyclones_detected = combined.ai_detection.cyclones_detected
       /\ row.ai_avg_confidence = combined.ai_detection.average_confidence
       /\ row.ai_risk_score = combined.ai_detection.ai_risk_score
       /\ row.vrs_score = combined.astrology_analysis.vrs_score
       /\ row.vrs_risk_level = combined.astrology_analysis.risk_level
       /\ row.combined_risk_score = combined.combined_assessment.combined_risk_score
       /\ row.final_risk_level = combined.combined_assessment.final_risk_level

\* the scheduler threads that run _run_scheduler, and those inside a sweep
LiveSchedulers == {t \in SchedThreads : pc[t] # "off"}
Sweeping == {t \in SchedThreads : pc[t] \notin {"off", "poll"}}

\* C26: after any sequence of start_monitoring and stop_monitoring calls at
\* most one scheduler thread is polling, and no two scheduled sweeps run at
\* the same time.
C26_OneSchedulerThread ==
  /\ Cardinality(LiveSchedulers) <= 1
  /\ Cardinality(Sweeping) <= 1

\* the rows a step appended to the notifications table
NewRows(notification_type) ==
  {n \in DOMAIN notifications' \ DOMAIN notifications :
     /\ notifications'[n].notification_type = notification_type
     /\ notifications'[n].status \in {"SENT", "FAILED"}}

\* C27: every notification attempt for an alert leaves exactly one row with
\* status SENT or FAILED (the store itself working): the step that notifies
\* about an alert appends one EMAIL row for it, and one SMS row as well when
\* the user has a phone and the risk level is HIGH or EXTREME, no SMS row
\* otherwise; rows already stored stay as they are.
C27_OneRowPerAttempt ==
  [][\A p \in Procs :
       (pc[p] = "notify" /\ pc'[p] # "notify")
       => /\ \A n \in DOMAIN notifications :
               n \in DOMAIN notifications' /\ notifications'[n] = notifications[n]
          /\ \A n \in DOMAIN notifications' \ DOMAIN notifications :
               notifications'[n].alert_id = alert_id[p]
          /\ Cardinality(NewRows("EMAIL")) = 1
          /\ Cardinality(NewRows("SMS")) =
               IF /\ get_user(location[p].user_id) \in phones
                  /\ alerts[alert_id[p]].risk_level \in {"HIGH", "EXTREME"}
                 THEN 1 ELSE 0]_vars

\* C29: evaluate_alerts is total over unrecognized labels.  A threshold that
\* is not one of the four tiers counts as MODERATE, an assessed tier that is
\* not one of the four never raises an alert, and otherwise the alert is
\* raised exactly when the assessed tier ranks at least as high as the
\* threshold (the location's user being stored).
C29_UnrecognizedLabels ==
  [][\A p \in Procs :
       (pc[p] = "evaluate" /\ pc'[p] # "evaluate")
       => LET current_risk == current_risk_of(results[p])
              threshold == IF location[p].alert_threshold \in Tiers
                             THEN location[p].alert_threshold ELSE "MODERATE"
          IN /\ alerts' = alerts
             /\ pc'[p] = "create"
                  <=> /\ current_risk \in Tiers
                      /\ tierRank(current_risk) >= tierRank(threshold)
                      /\ location[p].user_id \in users
             /\ pc'[p] # "create" => outcome'[p] = "completed"]_vars

\* an Alert was raised for a location whose threshold is not a tier, by an
\* assessment of MODERATE, and another evaluation is under way with an
\* assessed tier that is not one of the four
C29_Witness ==
  /\ \E i \in DOMAIN alerts :
       /\ locations[alerts[i].location_id].alert_threshold \notin Tiers
       /\ alerts[i].risk_level = "MODERATE"
  /\ \E p \in Procs :
       pc[p] = "evaluate" /\ current_risk_of(results[p]) \notin Tiers

\* C28: every result of get_cyclone_prediction, the error fallback
\* included, has a vrs_score in [0,100] and the risk_level that the table
\* (EXTREME from 70, HIGH from 50, MODERATE from 30, LOW below) gives that
\* score.
C28_OracleTierByTable ==
  \A i \in DOMAIN adapter_calls :
    adapter_calls[i].adapter = "get_cyclone_prediction" =>
      LET score == adapter_calls[i].out.vrs_analysis.vrs_score
          tier == adapter_calls[i].out.vrs_analysis.risk_level
      IN /\ score >= 0 /\ score <= 100
         /\ tier = (IF score >= 70 THEN "EXTREME"
                    ELSE IF score >= 50 THEN "HIGH"
                    ELSE IF score >= 30 THEN "MODERATE"
                    ELSE "LOW")

\* C30: the summary of one detect_cyclones invocation holds only what that
\* invocation's detector run found: its confidence_scores are the run's own
\* (or none), never lines left by earlier invocations, and total_cyclones is
\* the length of confidence_scores; the error result counts no cyclones.
C30_OnlyOwnDetections ==
  \A i \in DOMAIN adapter_calls :
    adapter_calls[i].adapter = "detect_cyclones" =>
      LET out == adapter_calls[i].out
      IN IF "error" \in DOMAIN out
           THEN out.total_cyclones = 0
           ELSE /\ out.confidence_scores \in {adapter_calls[i].own, <<>>}
                /\ out.total_cyclones = Len(out.confidence_scores)

====
